---- MODULE Spec2Model ----
(***************************************************************************)
(* Model of the agent loop of mcp-client-tx: Agent.invoke (src/Agent.py)   *)
(* driving ChatOpenAI (src/chat_openai.py) and routing the model's tool    *)
(* calls to the registered MCPClient instances (src/MCPClient.py).         *)
(***************************************************************************)
EXTENDS Integers, Sequences, FiniteSets, TLC

(* ------------------------------ bounds --------------------------------- *)

\* total number of tool calls the model may request over a run
MaxCalls == 2
\* total number of ChatOpenAI.chat invocations over a run
MaxChats == 2
\* websocket client: number of connect() attempts, call_tool requests and provider
\* messages over a run, taken together
MaxEvents == 4
\* call_tool, stream_tool_calls and cancel_stream invocations and provider messages
\* on a connected websocket client
MaxStreamEvents == 4
\* HTTP client: the largest max_retries a client is built with
MaxRetries == 3
\* HTTP client: number of events in the stream the API serves for a request
MaxLines == 2

(* ------------------------------ inputs --------------------------------- *)

None == "None"

\* the tool_call_id of a message that has none (ids start at 1)
NoId == 0

\* Agent.mcpClient, in registration order (main.py passes [fetch, filesystem])
Clients == <<"fetch", "filesystem">>

\* MCPClient.get_tools(): the catalog each client cached at connect time
Catalog(c) ==
    IF c = "fetch" THEN {"fetch", "search"} ELSE {"write_file", "search"}

\* tool names the model may ask for: one per routing case
ToolNames == {"fetch", "write_file", "search", "unknown"}

\* raw argument strings of a tool call, as token sequences
ArgStrings == { <<"{", "}">>, <<"{">> }

\* prompts given to Agent.invoke (chat() without a prompt is the call of line 100)
Prompts == {"q"}

\* response_message.content: absent (None) or a text
Contents == {None, "answer"}

\* exceptions a connected provider session may raise out of call_tool
ProviderErrors == {"timeout", "tool error"}

SystemPrompt == "system prompt"

(* --------------------------- pure functions ---------------------------- *)

\* json.loads on a token sequence: value ::= "1" | "{" "}" | "{" "k" ":" value "}"
\* returns the position after the value parsed from position p, or 0 (JSONDecodeError)
RECURSIVE ParseValue(_, _)
ParseValue(s, p) ==
    IF p > Len(s) THEN 0
    ELSE IF s[p] = "1" THEN p + 1
    ELSE IF s[p] = "{" THEN
        IF p + 1 <= Len(s) /\ s[p + 1] = "}" THEN p + 2
        ELSE IF p + 2 <= Len(s) /\ s[p + 1] = "k" /\ s[p + 2] = ":" THEN
            LET q == ParseValue(s, p + 3)
            IN  IF q # 0 /\ q <= Len(s) /\ s[q] = "}" THEN q + 1 ELSE 0
        ELSE 0
    ELSE 0

\* TRUE iff json.loads(s) returns instead of raising JSONDecodeError
JsonLoads(s) == ParseValue(s, 1) = Len(s) + 1

\* a scan without the break of line 81: the last matching client wins
RECURSIVE ScanClientsLast(_, _)
ScanClientsLast(k, name) ==
    IF k > Len(Clients) THEN None
    ELSE LET rest == ScanClientsLast(k + 1, name)
         IN  IF rest # None THEN rest
             ELSE IF name \in Catalog(Clients[k]) THEN Clients[k]
             ELSE None

\* the scan of Agent.invoke lines 76-81, from client index k on
RECURSIVE ScanClients(_, _)
ScanClients(k, name) ==
    IF k > Len(Clients) THEN None
    ELSE IF name \in Catalog(Clients[k]) THEN Clients[k]
    ELSE ScanClients(k + 1, name)

FindClient(name) == ScanClients(1, name)

\* a message of ChatOpenAI.messages; absent keys are None / <<>>
Message(role, content, tool_calls, tool_call_id) ==
    [role |-> role, content |-> content,
     tool_calls |-> tool_calls, tool_call_id |-> tool_call_id]

\* ChatOpenAI.append_tool_result
AppendToolResult(msgs, id, result) ==
    Append(msgs, Message("tool", result, <<>>, id))

\* chat(): `if prompt: self.messages.append(user message)`
AppendPrompt(msgs, prompt) ==
    IF prompt # "" THEN Append(msgs, Message("user", prompt, <<>>, NoId))
    ELSE msgs

\* an assistant message written over the last message instead of appended
AppendAssistantOverLast(msgs, content, calls) ==
    [msgs EXCEPT ![Len(msgs)] =
        Message("assistant", IF content = None THEN "" ELSE content, calls, NoId)]

\* chat(): the assistant message appended for a response, tool_calls set when non-empty
AppendAssistant(msgs, content, calls) ==
    Append(msgs, Message("assistant", IF content = None THEN "" ELSE content,
                         calls, NoId))

\* ChatOpenAI.__init__: the initial history
InitialMessages == <<Message("system", SystemPrompt, <<>>, NoId)>>

(* ------------------------------- state --------------------------------- *)

VARIABLES
    apiKeySet,      \* OPENAI_API_KEY is available to ChatOpenAI.__init__
    mcpConnected,   \* per client: MCPClient.mcp is not None
    isInitialized,  \* Agent._is_initialized
    messages,       \* ChatOpenAI.messages (<<>> while Agent.llm is None)
    pc,             \* position of Agent.invoke
    response,       \* the local `response` of Agent.invoke
    i,              \* index of the current tool_call in response.tool_calls
    inflight,       \* the call_tool awaited by invoke, or None
    dispatched,     \* log of found_client.call_tool invocations
    outcome,        \* how the last invoke ended: None, returned or raised
    modelFailed,    \* the last chat() hit an exception of the model API
    nextId,         \* next fresh tool-call id issued by the model
    chats           \* number of chat() invocations so far

agentVars == <<apiKeySet, mcpConnected, isInitialized, messages, pc, response, i,
               inflight, dispatched, outcome, modelFailed, nextId, chats>>

\* the websocket client of mcp_client.py and its provider
VARIABLES
    websocket,      \* MCPClient.websocket: 0 (None) or the number of a channel
    isConnected,    \* MCPClient.is_connected
    heartbeatTask,  \* MCPClient.heartbeat_task: 0 (None) or the session of the task
    futures,        \* MCPClient.response_futures: request id -> future
    chanState,      \* per channel ever opened: "open" or "closed"
    inbox,          \* per channel: messages sent by the provider, not yet received
    readers,        \* per session: the _message_handler task started by connect()
    heartbeats,     \* per session: the _heartbeat_loop task started by connect()
    wsCalls,        \* log of the call_tool invocations: request id, state, result
    sent,           \* log of tool_call messages put on a channel by call_tool
    connects,       \* what each connect() so far returned, in order
    served          \* the messages the provider has sent so far

wsVars == <<websocket, isConnected, heartbeatTask, futures, chanState, inbox,
            readers, heartbeats, wsCalls, sent, connects, served>>

\* the stdio client of MCPClient.py, one per name of Clients (with mcpConnected)
VARIABLES
    exitStack,      \* per client: MCPClient.exit_stack: None, open (holding the
                    \* transport and the session) or spent (emptied by a failed aclose)
    liveSessions,   \* per client: provider sessions started and not torn down
    stdioLast,      \* the last init, close or call_tool of a stdio client and its end
    stdioOps        \* number of init, close and call_tool invocations so far

stdioVars == <<exitStack, liveSessions, stdioLast, stdioOps>>

\* the streams of the websocket client
VARIABLES
    streamHandlers, \* MCPClient.stream_handlers: the stream ids with a handler
    streamOps,      \* log of the stream_tool_calls and cancel_stream invocations
    delivered       \* log of the handler invocations: stream id, chunk, reader, end

streamVars == <<streamHandlers, streamOps, delivered>>

\* the PromptTools wrappers of mcp_prompt_tools.py
VARIABLES
    promptCalls     \* log of the wrapper invocations: wrapper, call_tool's end, result

promptVars == <<promptCalls>>

\* the HTTP client of mcp_client/client.py and the API it posts to
VARIABLES
    maxRetries,     \* MCPClient.max_retries
    outcomes,       \* per request attempt of an invocation: how the API answers it
    httpCalls       \* log of the text, atext, stream and astream invocations

httpVars == <<maxRetries, outcomes, httpCalls>>

clientVars == <<wsVars, stdioVars, streamVars, promptVars, httpVars>>

vars == <<agentVars, clientVars>>

NoResponse == [content |-> None, tool_calls |-> <<>>]

\* no call_tool is awaited
NoCall == [client |-> None, id |-> NoId, name |-> None]

\* an asyncio.Future of response_futures
PendingFuture == [done |-> FALSE, kind |-> "pending", val |-> None]

\* no operation of a stdio client has run yet
NoOp == [client |-> None, op |-> None, outcome |-> None]

\* MCPClient.MCPClient.__init__, or a client its owner has connected with init()
StdioInitial ==
    /\ exitStack = [c \in DOMAIN mcpConnected |-> IF mcpConnected[c] THEN "open" ELSE None]
    /\ liveSessions = [c \in DOMAIN mcpConnected |-> IF mcpConnected[c] THEN 1 ELSE 0]
    /\ stdioLast = NoOp
    /\ stdioOps = 0

\* mcp_client.MCPClient.__init__
WsInit ==
    /\ websocket = 0
    /\ isConnected = FALSE
    /\ heartbeatTask = 0
    /\ futures = [x \in {} |-> PendingFuture]
    /\ chanState = <<>>
    /\ inbox = <<>>
    /\ readers = <<>>
    /\ heartbeats = <<>>
    /\ wsCalls = <<>>
    /\ sent = <<>>
    /\ connects = <<>>
    /\ served = {}

\* Agent.__init__ with the clients it is given, nothing run yet on them
InitAgent ==
    /\ apiKeySet \in BOOLEAN
    /\ mcpConnected \in [{Clients[k] : k \in 1..Len(Clients)} -> BOOLEAN]
    /\ isInitialized = FALSE
    /\ messages = <<>>
    /\ pc = "idle"
    /\ response = NoResponse
    /\ i = 0
    /\ inflight = NoCall
    /\ dispatched = <<>>
    /\ outcome = [kind |-> None, value |-> None]
    /\ modelFailed = FALSE
    /\ nextId = 1
    /\ chats = 0
    /\ StdioInitial
    /\ streamHandlers = {}
    /\ streamOps = <<>>
    /\ delivered = <<>>
    /\ promptCalls = <<>>

\* the default max_retries of mcp_client/client.py
DefaultMaxRetries == 3

\* how the API may answer one request attempt: a response, or an httpx.HTTPError
AttemptOutcomes == {"ok", "error"}

\* client.MCPClient.__init__ with the default max_retries, no request made yet
HttpInit ==
    /\ maxRetries = DefaultMaxRetries
    /\ outcomes = [k \in 1..MaxRetries |-> "ok"]
    /\ httpCalls = <<>>

Init == InitAgent /\ WsInit /\ HttpInit

(* ------------------------------ actions -------------------------------- *)

\* Agent.init called on its own (also __aenter__) with no API key: it raises
AgentInitFails ==
    /\ pc = "idle"
    /\ ~isInitialized
    /\ ~apiKeySet
    /\ outcome.kind # "raised"
    /\ outcome' = [kind |-> "raised", value |-> "ValueError"]
    /\ UNCHANGED <<clientVars, apiKeySet, mcpConnected, isInitialized, messages, pc, response,
                   i, inflight, dispatched, modelFailed, nextId, chats>>

\* Agent.init called on its own (also __aenter__): reads the catalogs, builds the llm
AgentInit ==
    /\ pc = "idle"
    /\ ~isInitialized
    /\ apiKeySet
    /\ isInitialized' = TRUE
    /\ messages' = InitialMessages
    /\ UNCHANGED <<clientVars, apiKeySet, mcpConnected, pc, response, i, inflight, dispatched,
                   outcome, modelFailed, nextId, chats>>

\* an Agent.close that also drops the sessions of the clients it was given
AgentCloseClosesClients ==
    /\ pc = "idle"
    /\ isInitialized
    /\ isInitialized' = FALSE
    /\ mcpConnected' = [c \in DOMAIN mcpConnected |-> FALSE]
    /\ UNCHANGED <<clientVars, apiKeySet, messages, pc, response, i, inflight, dispatched,
                   outcome, modelFailed, nextId, chats>>

\* Agent.close (also __aexit__): only resets _is_initialized
AgentClose ==
    /\ pc = "idle"
    /\ isInitialized
    /\ isInitialized' = FALSE
    /\ UNCHANGED <<clientVars, apiKeySet, mcpConnected, messages, pc, response, i, inflight,
                   dispatched, outcome, modelFailed, nextId, chats>>

\* Agent.invoke entered with no API key: Agent.init raises out of ChatOpenAI.__init__
InvokeInitFails ==
    /\ pc = "idle"
    /\ ~isInitialized
    /\ ~apiKeySet
    /\ chats < MaxChats
    /\ outcome' = [kind |-> "raised", value |-> "ValueError"]
    /\ UNCHANGED <<clientVars, apiKeySet, mcpConnected, isInitialized, messages, pc, response,
                   i, inflight, dispatched, modelFailed, nextId, chats>>

\* Agent.invoke up to the await inside the first llm.chat(prompt)
Invoke(prompt) ==
    /\ pc = "idle"
    /\ isInitialized \/ apiKeySet
    /\ chats < MaxChats
    /\ isInitialized' = TRUE
    /\ messages' = AppendPrompt(IF isInitialized THEN messages ELSE InitialMessages,
                                prompt)
    /\ pc' = "awaitModel"
    /\ chats' = chats + 1
    /\ outcome' = [kind |-> None, value |-> None]
    /\ modelFailed' = FALSE
    /\ response' = NoResponse
    /\ i' = 0
    /\ UNCHANGED <<clientVars, apiKeySet, mcpConnected, inflight, dispatched, nextId>>

\* the tool_calls list of a model response: n calls with fresh ids
Batch(n, names, args) ==
    [k \in 1..n |-> [id |-> nextId + k - 1, name |-> names[k], arguments |-> args[k]]]

\* chat() returns a response of the model: lines 131-162
ChatRespond(content, calls) ==
    /\ pc = "awaitModel"
    /\ messages' = AppendAssistant(messages, content, calls)
    /\ response' = [content |-> content, tool_calls |-> calls]
    /\ nextId' = nextId + Len(calls)
    /\ i' = 1
    /\ pc' = "loop"
    /\ UNCHANGED <<clientVars, apiKeySet, mcpConnected, isInitialized, inflight, dispatched,
                   outcome, modelFailed, chats>>

\* chat() catches an exception of the API call: lines 163-165
ChatFail ==
    /\ pc = "awaitModel"
    /\ response' = [content |-> "Error: api", tool_calls |-> <<>>]
    /\ modelFailed' = TRUE
    /\ i' = 1
    /\ pc' = "loop"
    /\ UNCHANGED <<clientVars, apiKeySet, mcpConnected, isInitialized, messages, inflight,
                   dispatched, outcome, nextId, chats>>

\* a for-loop that walks the tool_calls list from its end
ReversedCall == response.tool_calls[Len(response.tool_calls) + 1 - i]

\* the tool_call the for-loop of line 75 is at
CurrentCall == response.tool_calls[i]

InBatch == pc = "loop" /\ i <= Len(response.tool_calls)

\* a for-loop that keeps the results of a batch back instead of appending each
LoopStepDefers(msgs) ==
    /\ messages' = messages
    /\ i' = i + 1
    /\ pc' = "loop"
    /\ inflight' = NoCall

\* advance the for-loop of line 75 after a tool result was appended
LoopStep(msgs) ==
    /\ messages' = msgs
    /\ i' = i + 1
    /\ pc' = "loop"
    /\ inflight' = NoCall

\* an else-branch that appends nothing for an unknown tool
ToolNotFoundSilent ==
    /\ pc = "loop" /\ i <= Len(response.tool_calls)
    /\ FindClient(response.tool_calls[i].name) = None
    /\ i' = i + 1
    /\ UNCHANGED <<clientVars, apiKeySet, mcpConnected, isInitialized, messages, pc, response,
                   inflight, dispatched, outcome, modelFailed, nextId, chats>>

\* an else-branch that raises out of invoke for an unknown tool
ToolNotFoundRaises ==
    /\ pc = "loop" /\ i <= Len(response.tool_calls)
    /\ FindClient(response.tool_calls[i].name) = None
    /\ outcome' = [kind |-> "raised", value |-> "KeyError"]
    /\ pc' = "idle"
    /\ UNCHANGED <<clientVars, apiKeySet, mcpConnected, isInitialized, messages, response, i,
                   inflight, dispatched, modelFailed, nextId, chats>>

\* line 99: no client's catalog has the name
ToolNotFound ==
    /\ InBatch
    /\ FindClient(CurrentCall.name) = None
    /\ LoopStep(AppendToolResult(messages, CurrentCall.id, "Tool not found"))
    /\ UNCHANGED <<clientVars, apiKeySet, mcpConnected, isInitialized, response, dispatched,
                   outcome, modelFailed, nextId, chats>>

\* a json.loads evaluated outside the try: its JSONDecodeError leaves invoke
ToolBadArgsUncaught ==
    /\ pc = "loop" /\ i <= Len(response.tool_calls)
    /\ FindClient(response.tool_calls[i].name) # None
    /\ ~JsonLoads(response.tool_calls[i].arguments)
    /\ outcome' = [kind |-> "raised", value |-> "JSONDecodeError"]
    /\ pc' = "idle"
    /\ UNCHANGED <<clientVars, apiKeySet, mcpConnected, isInitialized, messages, response, i,
                   inflight, dispatched, modelFailed, nextId, chats>>

\* lines 88, 92-94: json.loads raises before call_tool is entered
ToolBadArgs ==
    /\ InBatch
    /\ FindClient(CurrentCall.name) # None
    /\ ~JsonLoads(CurrentCall.arguments)
    /\ LoopStep(AppendToolResult(messages, CurrentCall.id, "Invalid JSON arguments"))
    /\ UNCHANGED <<clientVars, apiKeySet, mcpConnected, isInitialized, response, dispatched,
                   outcome, modelFailed, nextId, chats>>

\* the record logged for a found_client.call_tool invocation
CallRecord(client, call) == [client |-> client, id |-> call.id, name |-> call.name]

\* lines 86, 95-97 with MCPClient.call_tool raising ValueError at once (self.mcp is None)
ToolNotConnected ==
    /\ InBatch
    /\ FindClient(CurrentCall.name) # None
    /\ JsonLoads(CurrentCall.arguments)
    /\ ~mcpConnected[FindClient(CurrentCall.name)]
    /\ dispatched' = Append(dispatched, CallRecord(FindClient(CurrentCall.name), CurrentCall))
    /\ LoopStep(AppendToolResult(messages, CurrentCall.id, "Error: not initialized"))
    /\ UNCHANGED <<clientVars, apiKeySet, mcpConnected, isInitialized, response,
                   outcome, modelFailed, nextId, chats>>

\* line 86: call_tool is awaited on the provider session of the found client
ToolDispatch ==
    /\ InBatch
    /\ FindClient(CurrentCall.name) # None
    /\ JsonLoads(CurrentCall.arguments)
    /\ mcpConnected[FindClient(CurrentCall.name)]
    /\ dispatched' = Append(dispatched, CallRecord(FindClient(CurrentCall.name), CurrentCall))
    /\ inflight' = CallRecord(FindClient(CurrentCall.name), CurrentCall)
    /\ pc' = "awaitTool"
    /\ UNCHANGED <<clientVars, apiKeySet, mcpConnected, isInitialized, messages, response, i,
                   outcome, modelFailed, nextId, chats>>

\* a returned call_tool whose result is appended twice
ToolResultTwice ==
    /\ pc = "awaitTool"
    /\ LoopStep(AppendToolResult(AppendToolResult(messages, CurrentCall.id, "result"),
                                 CurrentCall.id, "result"))
    /\ UNCHANGED <<clientVars, apiKeySet, mcpConnected, isInitialized, response, dispatched,
                   outcome, modelFailed, nextId, chats>>

\* lines 90-91: the awaited call_tool returns a result
ToolResult ==
    /\ pc = "awaitTool"
    /\ LoopStep(AppendToolResult(messages, CurrentCall.id, "result"))
    /\ UNCHANGED <<clientVars, apiKeySet, mcpConnected, isInitialized, response, dispatched,
                   outcome, modelFailed, nextId, chats>>

\* a call_tool exception that is not caught and leaves invoke
ToolRaisePropagates(err) ==
    /\ pc = "awaitTool"
    /\ outcome' = [kind |-> "raised", value |-> err]
    /\ pc' = "idle"
    /\ inflight' = NoCall
    /\ UNCHANGED <<clientVars, apiKeySet, mcpConnected, isInitialized, messages, response, i,
                   dispatched, modelFailed, nextId, chats>>

\* lines 95-97: the awaited call_tool raises
ToolRaise(err) ==
    /\ pc = "awaitTool"
    /\ LoopStep(AppendToolResult(messages, CurrentCall.id, "Error: " \o err))
    /\ UNCHANGED <<clientVars, apiKeySet, mcpConnected, isInitialized, response, dispatched,
                   outcome, modelFailed, nextId, chats>>

\* line 100: the batch is done, chat() is invoked again without a prompt
NextChat ==
    /\ pc = "loop"
    /\ Len(response.tool_calls) > 0
    /\ i > Len(response.tool_calls)
    /\ messages' = AppendPrompt(messages, "")
    /\ pc' = "awaitModel"
    /\ chats' = chats + 1
    /\ UNCHANGED <<clientVars, apiKeySet, mcpConnected, isInitialized, response, i, inflight,
                   dispatched, outcome, modelFailed, nextId>>

\* a return taken on any response, tool calls or not
ReturnAnyResponse ==
    /\ pc = "loop"
    /\ i = 1
    /\ outcome' = [kind |-> "returned", value |-> response.content]
    /\ pc' = "idle"
    /\ UNCHANGED <<clientVars, apiKeySet, mcpConnected, isInitialized, messages, response, i,
                   inflight, dispatched, modelFailed, nextId, chats>>

\* lines 101-102: a response without tool calls ends the turn
Return ==
    /\ pc = "loop"
    /\ Len(response.tool_calls) = 0
    /\ outcome' = [kind |-> "returned", value |-> response.content]
    /\ pc' = "idle"
    /\ UNCHANGED <<clientVars, apiKeySet, mcpConnected, isInitialized, messages, response, i,
                   inflight, dispatched, modelFailed, nextId, chats>>

(* ------------------ the websocket client (mcp_client.py) --------------- *)

\* results a provider may put in a tool_response
WsResults == {"r1", "r2"}

\* uuid4(): the request ids issued so far are 1..NextRequestId-1
NextRequestId ==
    Cardinality({k \in DOMAIN wsCalls : wsCalls[k].id # NoId})
        + Cardinality({k \in DOMAIN streamOps :
                        streamOps[k].op = "stream_tool_calls" /\ streamOps[k].id # NoId})
        + 1

\* a call_tool invocation: its request id (NoId if none was generated), its state
\* (waiting, returned, raised) and what it returned or raised
WsCall(id, st, val) == [id |-> id, st |-> st, val |-> val]

\* request ids the provider may name in a message: the issued ones, and NoId for a
\* message that names no request of this client
WsIds == NoId..(NextRequestId - 1)

\* the messages a provider may send: tool_response and error, each with a request id
ServerMessages ==
    [type : {"tool_response"}, id : WsIds, val : WsResults]
        \cup [type : {"error"}, id : WsIds, val : {"boom"}]

\* chunks a provider may put in a stream_data message
StreamChunks == {"d1", "d2"}

\* the stream messages a provider may send: stream_data and stream_end, each with a
\* stream id
StreamMessages ==
    [type : {"stream_data"}, id : WsIds, val : StreamChunks]
        \cup [type : {"stream_end"}, id : WsIds, val : {None}]

\* a wire payload that is not a JSON text
MalformedMessages == {[type |-> "malformed", id |-> NoId, val |-> "{"]}

\* the text of a message on the wire, as a token sequence: the provider's
\* json.dumps of a message object, or the malformed text as it is
WirePayload(m) ==
    IF m \in MalformedMessages THEN <<m.val>>
    ELSE <<"{", "k", ":", "1", "}">>

\* _message_handler: line 198, json.loads(message_str) returns
Parses(m) == JsonLoads(WirePayload(m))

\* a stream_tool_calls or cancel_stream invocation: the stream id and what it
\* returned or raised
StreamOp(op, id, out) == [op |-> op, id |-> id, outcome |-> out]

\* the stream ids handed out by stream_tool_calls so far
StreamIds ==
    {streamOps[k].id : k \in {j \in DOMAIN streamOps :
                                streamOps[j].op = "stream_tool_calls"}} \ {NoId}

\* connect() attempts, call_tool requests and provider answers so far
WsEvents == Len(connects) + Len(wsCalls) + Cardinality(served \ StreamMessages)

\* call_tool, stream_tool_calls and cancel_stream invocations and provider messages
\* so far
StreamEvents == Len(streamOps) + Len(wsCalls) + Cardinality(served)

\* the operations on the clients and the provider messages so far
Events == WsEvents + stdioOps

MapPut(f, k, v) == [x \in DOMAIN f \cup {k} |-> IF x = k THEN v ELSE f[x]]

\* dict.pop(k, None)
MapPop(f, k) == [x \in DOMAIN f \ {k} |-> f[x]]

\* `self.is_connected and self.websocket`
WsReady == isConnected /\ websocket # 0

\* a reader stuck in recv() calls that raise at once, without ever yielding: the
\* event loop of the client no longer runs anything else
Hung == \E r \in DOMAIN readers : readers[r].st = "spin"

\* connect(): websockets.connect succeeded, lines 35-45; the reader task created at
\* line 40 finds the new session and waits in recv() on its channel
WsConnectOk ==
    /\ ~Hung
    /\ Events < MaxEvents
    /\ connects' = Append(connects, "True")
    /\ chanState' = Append(chanState, "open")
    /\ inbox' = Append(inbox, <<>>)
    /\ websocket' = Len(chanState) + 1
    /\ isConnected' = TRUE
    /\ readers' = Append(readers, [st |-> "recv", chan |-> Len(chanState) + 1])
    /\ heartbeats' = Append(heartbeats, "running")
    /\ heartbeatTask' = Len(chanState) + 1
    /\ UNCHANGED <<futures, wsCalls, sent, served>>
    /\ UNCHANGED streamVars
    /\ UNCHANGED <<agentVars, stdioVars, promptVars, httpVars>>

\* connect(): websockets.connect raised, lines 46-49
WsConnectFail ==
    /\ ~Hung
    /\ Events < MaxEvents
    /\ connects' = Append(connects, "False")
    /\ isConnected' = FALSE
    /\ UNCHANGED <<websocket, heartbeatTask, futures, chanState, inbox, readers,
                   heartbeats, wsCalls, sent, served>>
    /\ UNCHANGED streamVars
    /\ UNCHANGED <<agentVars, stdioVars, promptVars, httpVars>>

\* disconnect(), lines 51-62
WsDisconnect ==
    /\ ~Hung
    /\ IF WsReady
       THEN /\ heartbeats' =
                IF heartbeatTask # 0 /\ heartbeats[heartbeatTask] = "running"
                THEN [heartbeats EXCEPT ![heartbeatTask] = "cancelled"]
                ELSE heartbeats
            /\ heartbeatTask' = 0
            /\ chanState' = [chanState EXCEPT ![websocket] = "closed"]
            /\ websocket' = 0
            /\ isConnected' = FALSE
       ELSE UNCHANGED <<heartbeats, heartbeatTask, chanState, websocket, isConnected>>
    /\ UNCHANGED <<futures, inbox, readers, wsCalls, sent, connects, served>>
    /\ UNCHANGED streamVars
    /\ UNCHANGED <<agentVars, stdioVars, promptVars, httpVars>>

\* a call_tool that registers its waiter before it tests the connection
WsCallRefusedLate ==
    /\ ~Hung
    /\ ~WsReady
    /\ Events < MaxEvents
    /\ futures' = MapPut(futures, NextRequestId, PendingFuture)
    /\ wsCalls' = Append(wsCalls, WsCall(NextRequestId, "raised", "ConnectionError"))
    /\ UNCHANGED <<websocket, isConnected, heartbeatTask, chanState, inbox,
                   readers, heartbeats, sent, connects, served>>
    /\ UNCHANGED streamVars
    /\ UNCHANGED <<agentVars, stdioVars, promptVars, httpVars>>

\* call_tool(): the guard of lines 82-83 raises
WsCallRefused ==
    /\ ~Hung
    /\ ~WsReady
    /\ Events < MaxEvents
    /\ wsCalls' = Append(wsCalls, WsCall(NoId, "raised", "ConnectionError"))
    /\ UNCHANGED <<websocket, isConnected, heartbeatTask, futures, chanState, inbox,
                   readers, heartbeats, sent, connects, served>>
    /\ UNCHANGED streamVars
    /\ UNCHANGED <<agentVars, stdioVars, promptVars, httpVars>>

\* call_tool(): lines 85-101, a fresh request id, its future, the send
WsCallSend ==
    /\ ~Hung
    /\ WsReady
    /\ Events < MaxEvents
    /\ StreamEvents < MaxStreamEvents
    /\ LET id == NextRequestId
       IN  /\ futures' = MapPut(futures, id, PendingFuture)
           /\ IF chanState[websocket] = "open"
              THEN /\ sent' = Append(sent, [chan |-> websocket, id |-> id])
                   /\ wsCalls' = Append(wsCalls, WsCall(id, "waiting", None))
              ELSE /\ sent' = sent
                   /\ wsCalls' = Append(wsCalls, WsCall(id, "raised", "ConnectionClosed"))
    /\ UNCHANGED <<websocket, isConnected, heartbeatTask, chanState, inbox, readers,
                   heartbeats, connects, served>>
    /\ UNCHANGED streamVars
    /\ UNCHANGED <<agentVars, stdioVars, promptVars, httpVars>>

\* call_tool(): wait_for returns the future's result or raises its exception,
\* lines 105-106 and 111-113, for the invocation logged at k
WsCallResume(k) ==
    /\ ~Hung
    /\ wsCalls[k].st = "waiting"
    /\ wsCalls[k].id \in DOMAIN futures
    /\ futures[wsCalls[k].id].done
    /\ wsCalls' = [wsCalls EXCEPT ![k] =
            WsCall(@.id,
                   IF futures[@.id].kind = "result" THEN "returned" ELSE "raised",
                   futures[@.id].val)]
    /\ futures' = MapPop(futures, wsCalls[k].id)
    /\ UNCHANGED <<websocket, isConnected, heartbeatTask, chanState, inbox, readers,
                   heartbeats, sent, connects, served>>
    /\ UNCHANGED streamVars
    /\ UNCHANGED <<agentVars, stdioVars, promptVars, httpVars>>

\* a timeout that leaves the waiter in the table
WsCallTimeoutKeepsWaiter(k) ==
    /\ ~Hung
    /\ wsCalls[k].st = "waiting"
    /\ wsCalls[k].id \in DOMAIN futures
    /\ ~futures[wsCalls[k].id].done
    /\ wsCalls' = [wsCalls EXCEPT ![k] = WsCall(@.id, "raised", "TimeoutError")]
    /\ UNCHANGED <<websocket, isConnected, heartbeatTask, futures, chanState, inbox,
                   readers, heartbeats, sent, connects, served>>
    /\ UNCHANGED streamVars
    /\ UNCHANGED <<agentVars, stdioVars, promptVars, httpVars>>

\* call_tool(): the deadline of wait_for passes, lines 107-113
WsCallTimeout(k) ==
    /\ ~Hung
    /\ wsCalls[k].st = "waiting"
    /\ wsCalls[k].id \in DOMAIN futures
    /\ ~futures[wsCalls[k].id].done
    /\ wsCalls' = [wsCalls EXCEPT ![k] = WsCall(@.id, "raised", "TimeoutError")]
    /\ futures' = MapPop(futures, wsCalls[k].id)
    /\ UNCHANGED <<websocket, isConnected, heartbeatTask, chanState, inbox, readers,
                   heartbeats, sent, connects, served>>
    /\ UNCHANGED streamVars
    /\ UNCHANGED <<agentVars, stdioVars, promptVars, httpVars>>

\* the provider puts a message it has not sent before on an open channel
ServerSend(c, m) ==
    /\ chanState[c] = "open"
    /\ m \notin served
    /\ StreamEvents < MaxStreamEvents
    /\ m \in StreamMessages \/ Events < MaxEvents
    /\ inbox' = [inbox EXCEPT ![c] = Append(@, m)]
    /\ served' = served \cup {m}
    /\ UNCHANGED <<websocket, isConnected, heartbeatTask, futures, chanState, readers,
                   heartbeats, wsCalls, sent, connects>>
    /\ UNCHANGED streamVars
    /\ UNCHANGED <<agentVars, stdioVars, promptVars, httpVars>>

\* the provider closes a channel
PeerClose(c) ==
    /\ chanState[c] = "open"
    /\ chanState' = [chanState EXCEPT ![c] = "closed"]
    /\ UNCHANGED <<websocket, isConnected, heartbeatTask, futures, inbox, readers,
                   heartbeats, wsCalls, sent, connects, served>>
    /\ UNCHANGED streamVars
    /\ UNCHANGED <<agentVars, stdioVars, promptVars, httpVars>>

\* _message_handler: the while test of line 194 and the recv() of line 197, by reader
\* r with the connection state (conn, ws) it finds, other readers being rs
ReaderLoopHead(r, rs, conn, ws) ==
    IF ~(conn /\ ws # 0) THEN [st |-> "done", chan |-> 0]
    ELSE IF \E q \in DOMAIN rs : q # r /\ rs[q].st = "recv" /\ rs[q].chan = ws
         THEN [st |-> "spin", chan |-> ws]
         ELSE [st |-> "recv", chan |-> ws]

\* a dispatch that fails every pending waiter on an error message
DispatchErrorToAll(f, m) ==
    IF m.type = "error" /\ m.id \in DOMAIN f /\ ~f[m.id].done
    THEN [x \in DOMAIN f |->
            IF f[x].done THEN f[x]
            ELSE [done |-> TRUE, kind |-> "exception", val |-> m.val]]
    ELSE IF m.id \in DOMAIN f /\ ~f[m.id].done
    THEN [f EXCEPT ![m.id] = [done |-> TRUE, kind |-> "result", val |-> m.val]]
    ELSE f

\* a dispatch that hands the message to the oldest pending waiter, whatever its id
DispatchOldest(f, m) ==
    LET pending == {x \in DOMAIN f : ~f[x].done}
    IN  IF pending # {}
        THEN [f EXCEPT ![CHOOSE x \in pending : \A y \in pending : x <= y] =
                [done |-> TRUE,
                 kind |-> IF m.type = "tool_response" THEN "result" ELSE "exception",
                 val |-> m.val]]
        ELSE f

\* _message_handler: lines 203-209 and 223-229, the future table after message m
Dispatch(f, m) ==
    IF m.id \in DOMAIN f /\ ~f[m.id].done
    THEN [f EXCEPT ![m.id] =
            [done |-> TRUE,
             kind |-> IF m.type = "tool_response" THEN "result" ELSE "exception",
             val |-> m.val]]
    ELSE f

\* a stream_data branch that hands every chunk to a handler without the lookup
HandledWithoutLookup(m) == m.type = "stream_data"

\* _message_handler: lines 211-216, the stream_data message m has a handler
Handled(m) == m.type = "stream_data" /\ m.id \in streamHandlers

\* _message_handler: lines 218-221, the handler table after message m
StreamEnd(h, m) == IF m.type = "stream_end" THEN h \ {m.id} ELSE h

\* a reader task that an exception of the loop body brings down
AfterExceptionBreaks(r, rs, conn, ws) == [st |-> "done", chan |-> 0]

\* _message_handler: lines 242-243, an exception of the loop body is printed and
\* the while loop goes on
AfterException(r, rs, conn, ws) == ReaderLoopHead(r, rs, conn, ws)

\* _message_handler: recv() returns a message and it is dispatched: a future is
\* resolved, a handler is popped, or the reader awaits the handler of a chunk;
\* otherwise the loop goes on
ReaderReceive(r) ==
    /\ ~Hung
    /\ readers[r].st = "recv"
    /\ inbox[readers[r].chan] # <<>>
    /\ LET m == Head(inbox[readers[r].chan])
       IN  IF ~Parses(m)
           THEN /\ UNCHANGED <<futures, streamHandlers, delivered>>
                /\ readers' = [readers EXCEPT ![r] =
                        AfterException(r, readers, isConnected, websocket)]
           ELSE
           /\ futures' = IF m.type \in {"tool_response", "error"}
                         THEN Dispatch(futures, m) ELSE futures
           /\ streamHandlers' = StreamEnd(streamHandlers, m)
           /\ IF Handled(m)
              THEN /\ delivered' = Append(delivered,
                        [id |-> m.id, data |-> m.val, by |-> r, end |-> "running"])
                   /\ readers' = [readers EXCEPT ![r] =
                                    [st |-> "handler", chan |-> @.chan]]
              ELSE /\ delivered' = delivered
                   /\ readers' = [readers EXCEPT ![r] =
                        ReaderLoopHead(r, readers, isConnected, websocket)]
    /\ inbox' = [inbox EXCEPT ![readers[r].chan] = Tail(@)]
    /\ UNCHANGED <<websocket, isConnected, heartbeatTask, chanState, heartbeats,
                   wsCalls, sent, connects, served>>
    /\ UNCHANGED streamOps
    /\ UNCHANGED <<agentVars, stdioVars, promptVars, httpVars>>

\* a reader task that a raising handler brings down
HandlerEndsStopsOnRaise(r, raised) ==
    /\ ~Hung
    /\ readers[r].st = "handler"
    /\ delivered' = [k \in DOMAIN delivered |->
            IF delivered[k].by = r /\ delivered[k].end = "running"
            THEN [delivered[k] EXCEPT !.end = IF raised THEN "raised" ELSE "returned"]
            ELSE delivered[k]]
    /\ readers' = [readers EXCEPT ![r] =
                        IF raised THEN [st |-> "done", chan |-> 0]
                        ELSE ReaderLoopHead(r, readers, isConnected, websocket)]
    /\ UNCHANGED <<websocket, isConnected, heartbeatTask, futures, chanState, inbox,
                   heartbeats, wsCalls, sent, connects, served>>
    /\ UNCHANGED <<streamHandlers, streamOps>>
    /\ UNCHANGED <<agentVars, stdioVars, promptVars, httpVars>>

\* _message_handler: the handler awaited at line 216 returns or raises (the except
\* of lines 242-243 prints); the loop goes on
HandlerEnds(r, raised) ==
    /\ ~Hung
    /\ readers[r].st = "handler"
    /\ delivered' = [k \in DOMAIN delivered |->
            IF delivered[k].by = r /\ delivered[k].end = "running"
            THEN [delivered[k] EXCEPT !.end = IF raised THEN "raised" ELSE "returned"]
            ELSE delivered[k]]
    /\ readers' = [readers EXCEPT ![r] =
                        ReaderLoopHead(r, readers, isConnected, websocket)]
    /\ UNCHANGED <<websocket, isConnected, heartbeatTask, futures, chanState, inbox,
                   heartbeats, wsCalls, sent, connects, served>>
    /\ UNCHANGED <<streamHandlers, streamOps>>
    /\ UNCHANGED <<agentVars, stdioVars, promptVars, httpVars>>

\* stream_tool_calls(): the guard of lines 132-133 raises
StreamRefused ==
    /\ ~Hung
    /\ ~WsReady
    /\ StreamEvents < MaxStreamEvents
    /\ streamOps' = Append(streamOps,
                           StreamOp("stream_tool_calls", NoId, "ConnectionError"))
    /\ UNCHANGED wsVars
    /\ UNCHANGED <<streamHandlers, delivered>>
    /\ UNCHANGED <<agentVars, stdioVars, promptVars, httpVars>>

\* stream_tool_calls(): lines 135-151, a fresh stream id, its handler, the send
StreamOpen ==
    /\ ~Hung
    /\ WsReady
    /\ StreamEvents < MaxStreamEvents
    /\ streamHandlers' = streamHandlers \cup {NextRequestId}
    /\ streamOps' = Append(streamOps,
            StreamOp("stream_tool_calls", NextRequestId,
                     IF chanState[websocket] = "open" THEN "returned"
                     ELSE "ConnectionClosed"))
    /\ UNCHANGED wsVars
    /\ UNCHANGED delivered
    /\ UNCHANGED <<agentVars, stdioVars, promptVars, httpVars>>

\* cancel_stream(id), lines 153-176: False when not connected, else the send and,
\* if it did not raise, the pop
CancelStream(id) ==
    /\ ~Hung
    /\ StreamEvents < MaxStreamEvents
    /\ IF ~WsReady
       THEN /\ streamOps' = Append(streamOps, StreamOp("cancel_stream", id, "False"))
            /\ streamHandlers' = streamHandlers
       ELSE IF chanState[websocket] = "open"
            THEN /\ streamOps' = Append(streamOps, StreamOp("cancel_stream", id, "True"))
                 /\ streamHandlers' = streamHandlers \ {id}
            ELSE /\ streamOps' = Append(streamOps,
                                        StreamOp("cancel_stream", id, "ConnectionClosed"))
                 /\ streamHandlers' = streamHandlers
    /\ UNCHANGED wsVars
    /\ UNCHANGED delivered
    /\ UNCHANGED <<agentVars, stdioVars, promptVars, httpVars>>

\* _message_handler: recv() raises ConnectionClosed, lines 236-241
ReaderClosed(r) ==
    /\ ~Hung
    /\ readers[r].st = "recv"
    /\ inbox[readers[r].chan] = <<>>
    /\ chanState[readers[r].chan] = "closed"
    /\ isConnected' = FALSE
    /\ websocket' = 0
    /\ readers' = [readers EXCEPT ![r] = [st |-> "done", chan |-> 0]]
    /\ UNCHANGED <<heartbeatTask, futures, chanState, inbox, heartbeats, wsCalls,
                   sent, connects, served>>
    /\ UNCHANGED streamVars
    /\ UNCHANGED <<agentVars, stdioVars, promptVars, httpVars>>

\* _heartbeat_loop: the while test of line 188 fails, or send_heartbeat raises on a
\* closed channel
HeartbeatExit(h) ==
    /\ ~Hung
    /\ heartbeats[h] = "running"
    /\ IF WsReady THEN chanState[websocket] = "closed" ELSE TRUE
    /\ heartbeats' = [heartbeats EXCEPT ![h] = "ended"]
    /\ UNCHANGED <<websocket, isConnected, heartbeatTask, futures, chanState, inbox,
                   readers, wsCalls, sent, connects, served>>
    /\ UNCHANGED streamVars
    /\ UNCHANGED <<agentVars, stdioVars, promptVars, httpVars>>

(* -------------------- the stdio client (MCPClient.py) ------------------ *)

\* how connect_to_server can end: the handshake completes, stdio_client cannot start
\* the provider (line 100), or ClientSession / initialize / list_tools raises after
\* self.mcp was assigned (lines 102-108)
ConnectEnds == {"ok", "spawn", "handshake"}

StdioOp(c, op, out) == [client |-> c, op |-> op, outcome |-> out]

\* exit_stack.aclose() of lines 55-57: what close() leaves of the stack `stack` when
\* the teardown succeeds (ok) or raises; a stack emptied before tears down nothing
StackAfterClose(stack, ok) ==
    IF stack = None THEN None
    ELSE IF ok \/ stack = "spent" THEN None
    ELSE "spent"

\* the sessions left by close(): a teardown that raised leaves `left` of them
SessionsAfterClose(stack, live, ok, left) ==
    IF stack = "open" THEN (IF ok THEN 0 ELSE left) ELSE live

\* close(), lines 49-59, on client c
StdioClose(c, ok, left) ==
    /\ Events < MaxEvents
    /\ stdioOps' = stdioOps + 1
    /\ exitStack' = [exitStack EXCEPT ![c] = StackAfterClose(@, ok)]
    /\ liveSessions' = [liveSessions EXCEPT ![c] =
                            SessionsAfterClose(exitStack[c], @, ok, left)]
    /\ stdioLast' = StdioOp(c, "close", None)
    /\ UNCHANGED <<wsVars, streamVars, promptVars, httpVars>>
    /\ UNCHANGED agentVars

\* init(), lines 61-69, on client c: close() if there is a stack, a new stack,
\* connect_to_server ending as `end`
StdioInit(c, ok, left, end) ==
    /\ Events < MaxEvents
    /\ stdioOps' = stdioOps + 1
    /\ LET live == SessionsAfterClose(exitStack[c], liveSessions[c], ok, left)
       IN  /\ exitStack' = [exitStack EXCEPT ![c] = IF end = "ok" THEN "open" ELSE None]
           /\ liveSessions' = [liveSessions EXCEPT ![c] =
                                   IF end = "ok" THEN live + 1 ELSE live]
    /\ mcpConnected' = [mcpConnected EXCEPT ![c] = IF end = "spawn" THEN @ ELSE TRUE]
    /\ stdioLast' = StdioOp(c, "init", IF end = "ok" THEN None ELSE "raised")
    /\ UNCHANGED <<wsVars, streamVars, promptVars, httpVars>>
    /\ UNCHANGED <<apiKeySet, isInitialized, messages, pc, response, i, inflight,
                   dispatched, outcome, modelFailed, nextId, chats>>

\* call_tool(), lines 77-83, on client c
StdioCallTool(c) ==
    /\ Events < MaxEvents
    /\ stdioOps' = stdioOps + 1
    /\ stdioLast' = StdioOp(c, "call_tool",
                            IF mcpConnected[c] THEN "dispatched" ELSE "ValueError")
    /\ UNCHANGED <<exitStack, liveSessions>>
    /\ UNCHANGED <<wsVars, streamVars, promptVars, httpVars>>
    /\ UNCHANGED agentVars

(* ------------- the PromptTools wrappers (mcp_prompt_tools.py) ---------- *)

\* the wrappers that read one key of the result with result.get(key, default)
Getters == {"user_input", "user_confirm", "user_choice", "save_file", "clipboard_read"}

\* the wrappers that return True once call_tool has returned
Tellers == {"show_message", "show_panel", "clipboard_write"}

Wrappers == Getters \cup Tellers \cup {"upload_file"}

\* what a wrapper returns from its except branch
Default(w) ==
    IF w \in {"user_input", "user_choice", "clipboard_read"} THEN "''"
    ELSE IF w = "upload_file" THEN "{}"
    ELSE "False"

\* how the call_tool of a wrapper can end: it raises (not connected, timeout, send
\* on a closed channel, the provider's error), or returns the result of the
\* tool_response: none, a dict without the wrapper's key, a dict with it
CallEnds ==
    [kind : {"raised"},
     val : {"ConnectionError", "TimeoutError", "ConnectionClosed", "boom"}]
        \cup [kind : {"returned"}, val : {None, "empty", "full"}]

\* the try block of a wrapper on a result of call_tool: what it returns, or the
\* AttributeError of None.get
TryBlock(w, result) ==
    IF w \in Tellers THEN [kind |-> "returned", val |-> "True"]
    ELSE IF w = "upload_file"
         THEN [kind |-> "returned", val |-> IF result = "full" THEN "value" ELSE "{}"]
         ELSE IF result = None THEN [kind |-> "raised", val |-> "AttributeError"]
              ELSE [kind |-> "returned",
                    val |-> IF result = "full" THEN "value" ELSE Default(w)]

\* a wrapper whose except branch lets a timeout through
WrapTimeoutEscapes(w, end) ==
    IF end.kind = "raised"
    THEN IF end.val = "TimeoutError" THEN end
         ELSE [kind |-> "returned", val |-> Default(w)]
    ELSE IF TryBlock(w, end.val).kind = "raised"
         THEN [kind |-> "returned", val |-> Default(w)]
         ELSE TryBlock(w, end.val)

\* a wrapper: try / except Exception around call_tool and the reading of its result
Wrap(w, end) ==
    IF end.kind = "raised" THEN [kind |-> "returned", val |-> Default(w)]
    ELSE IF TryBlock(w, end.val).kind = "raised"
         THEN [kind |-> "returned", val |-> Default(w)]
         ELSE TryBlock(w, end.val)

\* call_tool has not ended yet, the wrapper has not returned yet
NoEnd == [kind |-> None, val |-> None]

\* wrapper w is invoked and awaits self.client.call_tool
PromptCall(w) ==
    /\ Len(promptCalls) < MaxCalls
    /\ promptCalls' = Append(promptCalls, [wrapper |-> w, end |-> NoEnd, result |-> NoEnd])
    /\ UNCHANGED <<wsVars, stdioVars, streamVars, httpVars>>
    /\ UNCHANGED agentVars

\* the call_tool awaited by invocation k ends, the wrapper returns or raises
PromptReturn(k, end) ==
    /\ promptCalls[k].end = NoEnd
    /\ promptCalls' = [promptCalls EXCEPT ![k] =
            [wrapper |-> @.wrapper, end |-> end, result |-> Wrap(@.wrapper, end)]]
    /\ UNCHANGED <<wsVars, stdioVars, streamVars, httpVars>>
    /\ UNCHANGED agentVars

(* ------------------ the HTTP client (mcp_client/client.py) ------------- *)

\* the methods that block the caller and the coroutines
SyncMethods == {"text", "stream"}

\* the methods that return one response, and the generators of events
TextMethods == {"text", "atext"}

StreamMethods == {"stream", "astream"}

\* 2 ** attempt
RECURSIVE Pow2(_)
Pow2(n) == IF n = 0 THEN 1 ELSE 2 * Pow2(n - 1)

\* the events of the stream the API serves for a request, in order
ServerEvents == [k \in 1..MaxLines |-> k]

\* an invocation entering `for attempt in range(self.max_retries)`: with an empty
\* range the loop body never runs and the method falls off its end (returns None,
\* or ends the generator); otherwise the first request is posted
HttpCall(method) ==
    [method |-> method, attempt |-> 0, posts |-> IF maxRetries > 0 THEN 1 ELSE 0,
     pos |-> 0, slept |-> <<>>, yielded |-> <<>>,
     st |-> IF maxRetries > 0 THEN "attempt" ELSE "returned", val |-> None]

\* time.sleep(2 ** attempt), then the next iteration posts the request again
SleepSync(c) ==
    [c EXCEPT !.slept = Append(@, Pow2(c.attempt)),
              !.attempt = @ + 1, !.posts = @ + 1, !.pos = 0]

\* `await asyncio.sleep(2 ** attempt)` in a module that does not import asyncio:
\* evaluating the name raises NameError out of the except block
SleepAsync(c) == [c EXCEPT !.st = "raised", !.val = "NameError"]

\* the except httpx.HTTPError block: re-raise on the last attempt, else back off
OnHttpError(c) ==
    IF c.attempt = maxRetries - 1 THEN [c EXCEPT !.st = "raised", !.val = "HTTPError"]
    ELSE IF c.method \in SyncMethods THEN SleepSync(c)
    ELSE SleepAsync(c)

\* text, atext, stream or astream is invoked; the caller runs one invocation at a
\* time, each method once
HttpStart(m) ==
    /\ \A k \in DOMAIN httpCalls :
        httpCalls[k].st # "attempt" /\ httpCalls[k].method # m
    /\ httpCalls' = Append(httpCalls, HttpCall(m))
    /\ UNCHANGED <<maxRetries, outcomes>>
    /\ UNCHANGED <<agentVars, wsVars, stdioVars, streamVars, promptVars>>

\* text / atext: the post succeeds, raise_for_status passes, the response is returned
AttemptReturns(k) ==
    /\ httpCalls[k].st = "attempt"
    /\ httpCalls[k].method \in TextMethods
    /\ outcomes[httpCalls[k].attempt + 1] = "ok"
    /\ httpCalls' = [httpCalls EXCEPT ![k].st = "returned", ![k].val = "response"]
    /\ UNCHANGED <<maxRetries, outcomes>>
    /\ UNCHANGED <<agentVars, wsVars, stdioVars, streamVars, promptVars>>

\* stream / astream: the next line of the response is read and its event yielded
StreamYield(k) ==
    /\ httpCalls[k].st = "attempt"
    /\ httpCalls[k].method \in StreamMethods
    /\ httpCalls[k].pos < MaxLines
    /\ httpCalls' = [httpCalls EXCEPT
            ![k].yielded = Append(@, ServerEvents[httpCalls[k].pos + 1]),
            ![k].pos = @ + 1]
    /\ UNCHANGED <<maxRetries, outcomes>>
    /\ UNCHANGED <<agentVars, wsVars, stdioVars, streamVars, promptVars>>

\* stream / astream: the response ends, the generator returns
StreamReturns(k) ==
    /\ httpCalls[k].st = "attempt"
    /\ httpCalls[k].method \in StreamMethods
    /\ outcomes[httpCalls[k].attempt + 1] = "ok"
    /\ httpCalls[k].pos = MaxLines
    /\ httpCalls' = [httpCalls EXCEPT ![k].st = "returned"]
    /\ UNCHANGED <<maxRetries, outcomes>>
    /\ UNCHANGED <<agentVars, wsVars, stdioVars, streamVars, promptVars>>

\* the attempt raises an httpx.HTTPError: from the post or raise_for_status, or,
\* for a stream, from reading the response after any number of its lines
AttemptFails(k) ==
    /\ httpCalls[k].st = "attempt"
    /\ outcomes[httpCalls[k].attempt + 1] = "error"
    /\ httpCalls' = [httpCalls EXCEPT ![k] = OnHttpError(@)]
    /\ UNCHANGED <<maxRetries, outcomes>>
    /\ UNCHANGED <<agentVars, wsVars, stdioVars, streamVars, promptVars>>

(* ------------------------- reading the history ------------------------- *)

Range(f) == {f[k] : k \in DOMAIN f}

ClientSet == Range(Clients)

\* every ToolCallRequest the model issued so far (they sit in assistant messages)
RequestedCalls == UNION {Range(m.tool_calls) : m \in Range(messages)}

\* positions of the tool messages carrying a given tool_call_id
ToolMessagesFor(id) ==
    {k \in DOMAIN messages :
        messages[k].role = "tool" /\ messages[k].tool_call_id = id}

\* positions of the call_tool invocations logged for a given tool_call_id
DispatchesFor(id) == {k \in DOMAIN dispatched : dispatched[k].id = id}

\* the name is in the cached catalog of some registered client
Known(name) == \E c \in ClientSet : name \in Catalog(c)

\* position of the last assistant message (0 if none)
LastAssistant ==
    LET ps == {k \in DOMAIN messages : messages[k].role = "assistant"}
    IN  IF ps = {} THEN 0 ELSE CHOOSE k \in ps : \A j \in ps : j <= k

\* the model is being invoked again after a batch of tool calls
ReinvokedAfterBatch == pc = "awaitModel" /\ Len(response.tool_calls) > 0

IsPrefix(a, b) == Len(a) <= Len(b) /\ \A k \in DOMAIN a : a[k] = b[k]

(* -------------------------------- claims ------------------------------- *)

\* C1: when the model is invoked again after a response with N >= 1 tool calls,
\* the history ends with the assistant message of that response followed by
\* exactly N tool messages, the k-th carrying the id of the k-th call, and every
\* requested id has exactly one tool message, whatever way each call resolved.
C1_ExactlyNToolResults ==
    ReinvokedAfterBatch =>
        LET N == Len(response.tool_calls)
            L == Len(messages)
        IN  /\ L > N
            /\ messages[L - N].role = "assistant"
            /\ messages[L - N].tool_calls = response.tool_calls
            /\ \A k \in 1..N :
                /\ messages[L - N + k].role = "tool"
                /\ messages[L - N + k].tool_call_id = response.tool_calls[k].id
            /\ \A c \in RequestedCalls : Cardinality(ToolMessagesFor(c.id)) = 1

\* C1 witness: the model is re-invoked after a batch of two calls of which one named
\* an unknown tool and the other failed in another way
C1_Witness ==
    /\ ReinvokedAfterBatch
    /\ Len(response.tool_calls) = 2
    /\ \E j, k \in DOMAIN messages :
        /\ j > LastAssistant /\ k > LastAssistant
        /\ messages[j].content = "Tool not found"
        /\ messages[k].content \in {"Invalid JSON arguments", "Error: timeout",
                                    "Error: not initialized"}

\* C2: while a batch is executed the tool messages after the assistant message are
\* the results of a prefix of the tool_calls list, in list order; call k has been
\* handed to call_tool only if calls 1..k-1 have their results; at most one call of
\* the batch is handed out without a result, and it is the awaited one.
C2_SequentialInListOrder ==
    (pc \in {"loop", "awaitTool"} /\ Len(response.tool_calls) > 0) =>
        LET calls == response.tool_calls
            p == LastAssistant
            done == Len(messages) - p
            open == {k \in DOMAIN calls :
                        DispatchesFor(calls[k].id) # {} /\ ToolMessagesFor(calls[k].id) = {}}
        IN  /\ p > 0 /\ messages[p].tool_calls = calls
            /\ done <= Len(calls)
            /\ \A k \in 1..done :
                /\ messages[p + k].role = "tool"
                /\ messages[p + k].tool_call_id = calls[k].id
            /\ \A k \in DOMAIN calls : DispatchesFor(calls[k].id) # {} => k <= done + 1
            /\ Cardinality(open) <= 1
            /\ open # {} => (pc = "awaitTool" /\ inflight # NoCall
                             /\ inflight.id = calls[done + 1].id)
            /\ pc = "awaitTool" <=> inflight # NoCall

\* C2 witness: the second call of a batch is in flight after the first was dispatched
\* and resolved
C2_Witness ==
    /\ pc = "awaitTool"
    /\ Len(response.tool_calls) = 2
    /\ inflight.id = response.tool_calls[2].id
    /\ DispatchesFor(response.tool_calls[1].id) # {}
    /\ ToolMessagesFor(response.tool_calls[1].id) # {}

\* C3: every call_tool invocation goes to the first client in registration order
\* whose catalog contains the name (write_file, only in the second catalog, to
\* filesystem; search, in both, to fetch and never to filesystem), no call is handed
\* to two clients, and a resolved call with a known name and parsable arguments was
\* handed to exactly one.
C3_FirstMatchRouting ==
    /\ \A k \in DOMAIN dispatched :
        LET d == dispatched[k]
            pos == CHOOSE j \in DOMAIN Clients : Clients[j] = d.client
        IN  /\ d.name \in Catalog(d.client)
            /\ \A j \in 1..(pos - 1) : d.name \notin Catalog(Clients[j])
            /\ d.name = "write_file" => d.client = "filesystem"
            /\ d.name = "search" => d.client = "fetch"
    /\ \A c \in RequestedCalls :
        /\ Cardinality(DispatchesFor(c.id)) <= 1
        /\ (ToolMessagesFor(c.id) # {} /\ Known(c.name) /\ JsonLoads(c.arguments))
            => Cardinality(DispatchesFor(c.id)) = 1

\* C3 witness: a name only the second client has and a name both clients have were
\* both dispatched
C3_Witness ==
    /\ \E k \in DOMAIN dispatched : dispatched[k].name = "write_file"
    /\ \E k \in DOMAIN dispatched : dispatched[k].name = "search"

\* C4: a call whose name is in no catalog is never handed to call_tool, its result
\* is the text "Tool not found" under its id, and the turn goes on: whenever the
\* turn is over or the model is invoked again, every call of the batch, the ones
\* after the unknown one included, has its result and invoke has not raised.
C4_UnknownToolNotDispatched ==
    \A c \in RequestedCalls :
        ~Known(c.name) =>
            /\ DispatchesFor(c.id) = {}
            /\ \A k \in ToolMessagesFor(c.id) : messages[k].content = "Tool not found"
            /\ pc \in {"idle", "awaitModel"} =>
                /\ outcome.kind # "raised"
                /\ \A d \in RequestedCalls : Cardinality(ToolMessagesFor(d.id)) = 1

\* C4 witness: an unknown tool was the first call of a batch of two and the second
\* call has its result too
C4_Witness ==
    /\ Len(response.tool_calls) = 2
    /\ ~Known(response.tool_calls[1].name)
    /\ Known(response.tool_calls[2].name)
    /\ ToolMessagesFor(response.tool_calls[1].id) # {}
    /\ ToolMessagesFor(response.tool_calls[2].id) # {}

\* C5: invoke moves idle -> awaitModel -> loop; from a response with tool calls it
\* goes through the batch (loop, awaitTool) back to awaitModel and never to idle;
\* it goes back to idle only from a response with zero tool calls, returning that
\* response's content.
C5_TurnStateMachine ==
    [][ /\ (pc = "idle" /\ pc' # "idle") => pc' = "awaitModel"
        /\ (pc = "awaitModel" /\ pc' # "awaitModel") => pc' = "loop"
        /\ (pc = "awaitTool" /\ pc' # "awaitTool") => pc' = "loop"
        /\ (pc = "loop" /\ pc' = "awaitTool") =>
                (Len(response.tool_calls) > 0 /\ i <= Len(response.tool_calls))
        /\ (pc = "loop" /\ pc' = "awaitModel") =>
                (Len(response.tool_calls) > 0 /\ i = Len(response.tool_calls) + 1
                 /\ outcome' = outcome)
        /\ (pc # "idle" /\ pc' = "idle") =>
                /\ pc = "loop"
                /\ Len(response.tool_calls) = 0
                /\ outcome' = [kind |-> "returned", value |-> response.content]
        /\ (outcome.kind # "returned" /\ outcome'.kind = "returned") =>
                (pc = "loop" /\ pc' = "idle")
      ]_vars

\* C5 witness: a turn that went through a batch of tool calls has returned the
\* content of the final response
C5_Witness ==
    /\ pc = "idle"
    /\ outcome = [kind |-> "returned", value |-> "answer"]
    /\ \E k \in DOMAIN messages : messages[k].role = "tool"
    /\ messages[Len(messages)].role = "assistant"
    /\ messages[Len(messages)].tool_calls = <<>>

\* C6: a call handed to call_tool has exactly one tool message under its id once it
\* is no longer awaited, also when call_tool raised; invoke never raises once the
\* model adapter exists; at the end of the turn and at every model invocation all
\* calls of the batch have their results; and a turn never ends on a tool message
\* unless the model was invoked again and that invocation failed.
C6_ToolFailureRecovered ==
    /\ \A k \in DOMAIN dispatched :
        Cardinality(ToolMessagesFor(dispatched[k].id)) =
            IF inflight.id = dispatched[k].id THEN 0 ELSE 1
    /\ isInitialized => outcome.kind # "raised"
    /\ pc \in {"idle", "awaitModel"} =>
            \A c \in RequestedCalls : Cardinality(ToolMessagesFor(c.id)) = 1
    /\ (pc = "idle" /\ messages # <<>> /\ messages[Len(messages)].role = "tool")
            => (modelFailed /\ outcome.kind = "returned")

\* C6 witness: the first call of a batch raised in call_tool, the second call was
\* still dispatched and resolved, and the model is invoked again
C6_Witness ==
    /\ ReinvokedAfterBatch
    /\ Len(response.tool_calls) = 2
    /\ \E k \in ToolMessagesFor(response.tool_calls[1].id) :
            messages[k].content \in {"Error: timeout", "Error: tool error",
                                     "Error: not initialized"}
    /\ DispatchesFor(response.tool_calls[2].id) # {}
    /\ \E k \in ToolMessagesFor(response.tool_calls[2].id) :
            messages[k].content = "result"

\* the parse-error part of C7 for one requested call
ParseErrorResult(c) ==
    /\ DispatchesFor(c.id) = {}
    /\ \A k \in ToolMessagesFor(c.id) : messages[k].content = "Invalid JSON arguments"
    /\ pc \in {"idle", "awaitModel"} =>
        /\ Cardinality(ToolMessagesFor(c.id)) = 1
        /\ outcome.kind # "raised"
    /\ (pc = "idle" /\ messages[Len(messages)].role = "tool") => modelFailed

\* C7 as stated: every call whose argument string does not parse gets a tool result
\* with the parse-error text, is handed to no provider, and the model is invoked
\* again.
C7_Original ==
    \A c \in RequestedCalls : ~JsonLoads(c.arguments) => ParseErrorResult(c)

\* C7 amended: every call whose name is in some registered client's catalog and
\* whose argument string does not parse gets a tool result with the parse-error
\* text, is handed to no provider, and the model is invoked again.
C7_ParseErrorForKnownTool ==
    \A c \in RequestedCalls :
        (Known(c.name) /\ ~JsonLoads(c.arguments)) => ParseErrorResult(c)

\* C7 witness: a known tool's unparsable arguments were answered and the model is
\* invoked again
C7_Witness ==
    /\ ReinvokedAfterBatch
    /\ \E c \in Range(response.tool_calls) :
        /\ Known(c.name) /\ ~JsonLoads(c.arguments)
        /\ \E k \in ToolMessagesFor(c.id) : messages[k].content = "Invalid JSON arguments"

\* C8 as stated: when the model call of a turn fails, the turn ends as a failure
\* raised to the caller of invoke, not as a returned answer, and the model is not
\* called again in that turn.
C8_ModelFailureSurfaced ==
    modelFailed =>
        /\ pc # "awaitModel"
        /\ pc = "idle" => outcome.kind = "raised"

\* C9 as stated: every completed chat invocation has appended exactly one assistant
\* message, so the history holds as many assistant messages as chat invocations
\* have completed.
C9_OneResponsePerChat ==
    Cardinality({k \in DOMAIN messages : messages[k].role = "assistant"})
        = chats - (IF pc = "awaitModel" THEN 1 ELSE 0)

\* C10: every step leaves the history it found as a prefix of the history it
\* leaves: no message is removed, replaced or reordered.
C10_AppendOnly == [][IsPrefix(messages, messages')]_vars

\* C10 witness: a history that chat and append_tool_result both extended, over two
\* model invocations
C10_Witness ==
    /\ Len(messages) >= 5
    /\ \E k \in DOMAIN messages : messages[k].role = "tool"
    /\ Cardinality({k \in DOMAIN messages : messages[k].role = "assistant"}) = 2

\* position of the last user message (0 if none)
LastUser ==
    LET ps == {k \in DOMAIN messages : messages[k].role = "user"}
    IN  IF ps = {} THEN 0 ELSE CHOOSE k \in ps : \A j \in ps : j <= k

\* the messages appended after the prompt of the current turn
SinceUser == SubSeq(messages, LastUser + 1, Len(messages))

IsAssistant(m) == m.role = "assistant"

\* the model's responses of the current turn, in order
TurnResponses == SelectSeq(SinceUser, IsAssistant)

\* the scenario of C11: a finished turn of two model responses, the first with one
\* tool call, the second with none
OneCallScenario ==
    /\ pc = "idle"
    /\ outcome.kind = "returned"
    /\ ~modelFailed
    /\ Len(TurnResponses) = 2
    /\ Len(TurnResponses[1].tool_calls) = 1
    /\ Len(TurnResponses[2].tool_calls) = 0

\* C11: in the scenario invoke returns the content of the second response, and
\* exactly three messages follow the user prompt: the assistant message with the
\* tool call, the tool result under that call's id, the final assistant message.
C11_OneCallScenario ==
    OneCallScenario =>
        /\ Len(SinceUser) = 3
        /\ SinceUser[1].role = "assistant"
        /\ Len(SinceUser[1].tool_calls) = 1
        /\ SinceUser[2].role = "tool"
        /\ SinceUser[2].tool_call_id = SinceUser[1].tool_calls[1].id
        /\ SinceUser[3].role = "assistant"
        /\ SinceUser[3].tool_calls = <<>>
        /\ outcome.value = response.content
        /\ SinceUser[3].content = (IF outcome.value = None THEN "" ELSE outcome.value)

\* C11 witness: the scenario ended with the answer of the second response, after a
\* tool call that was dispatched and returned a result
C11_Witness ==
    /\ OneCallScenario
    /\ outcome.value = "answer"
    /\ SinceUser[2].content = "result"

(* C12: no operation of the Agent (init, invoke, close, leaving its context)
   closes or disconnects a client it was given: every step of the Agent leaves
   each client's session, exit stack and provider sessions, and the websocket
   client, as they were. *)
C12_AgentLeavesClientsAlone ==
    [][mcpConnected' = mcpConnected /\ clientVars' = clientVars]_vars

\* an Agent that dispatched a tool call to a connected client has been closed
C12_Witness ==
    /\ ~isInitialized
    /\ dispatched # <<>>
    /\ \E c \in ClientSet :
            mcpConnected[c] /\ exitStack[c] = "open" /\ liveSessions[c] = 1

\* the call_tool invocation with request id `id` ended in a timeout
TimedOut(id) ==
    \E k \in DOMAIN wsCalls : wsCalls[k] = WsCall(id, "raised", "TimeoutError")

\* the step is the reader loop taking a message from channel c
Receives(c) == inbox[c] # <<>> /\ inbox'[c] = Tail(inbox[c])

\* the messages of the provider that name request id
ServedFor(id) == {m \in served : m.id = id}

(* C13: a call_tool whose provider never answers ends, if it ends, with a timeout
   error; when the deadline passes the waiter of that id leaves the pending
   table; a response for that id received afterwards changes neither the pending
   table nor any call_tool invocation. *)
C13_TimeoutDropsLateResponse ==
    [][/\ \A k \in DOMAIN wsCalls :
            (wsCalls[k].st = "waiting" /\ wsCalls'[k].st # "waiting"
                /\ ServedFor(wsCalls[k].id) = {})
            => wsCalls'[k] = WsCall(wsCalls[k].id, "raised", "TimeoutError")
       /\ \A k \in DOMAIN wsCalls :
            (wsCalls[k].st = "waiting" /\ TimedOut(wsCalls[k].id)')
            => wsCalls[k].id \notin DOMAIN futures'
       /\ \A c \in DOMAIN inbox :
            (Receives(c) /\ TimedOut(Head(inbox[c]).id))
            => futures' = futures /\ wsCalls' = wsCalls]_vars

\* a call timed out, and then a tool_response for its id was sent and received
C13_Witness ==
    /\ Len(wsCalls) = 1
    /\ TimedOut(1)
    /\ DOMAIN futures = {}
    /\ \E m \in served : m.type = "tool_response" /\ m.id = 1
    /\ \A c \in DOMAIN inbox : inbox[c] = <<>>

(* C14: with several call_tool invocations pending on one client, a caller that
   gets a result gets the result of a tool_response carrying its own request id,
   in whatever order the responses arrive; receiving a message leaves every
   waiter registered under another id as it was. *)
C14_ResponseMatchedById ==
    [][/\ \A k \in DOMAIN wsCalls :
            (wsCalls[k].st = "waiting" /\ wsCalls'[k].st = "returned")
            => [type |-> "tool_response", id |-> wsCalls[k].id,
                val |-> wsCalls'[k].val] \in served
       /\ \A c \in DOMAIN inbox :
            Receives(c)
            => \A id \in DOMAIN futures :
                    id # Head(inbox[c]).id => futures'[id] = futures[id]]_vars

\* two calls were pending together and the second got its result first
C14_Witness ==
    /\ Len(wsCalls) = 2
    /\ wsCalls[1].st = "waiting"
    /\ wsCalls[1].id \in DOMAIN futures
    /\ ~futures[wsCalls[1].id].done
    /\ wsCalls[2].st = "returned"

\* the step is a disconnect() of a connected client: the only step that resets
\* heartbeat_task
Disconnects == heartbeatTask # 0 /\ heartbeatTask' = 0

(* C15: close() on a client with call_tool invocations still pending rejects
   every pending waiter (none is left undecided in the table), leaves the
   heartbeat task of the session stopped and the channel closed. *)
C15_CloseRejectsPending ==
    [][Disconnects =>
        /\ \A id \in DOMAIN futures' : futures'[id].done
        /\ heartbeats'[heartbeatTask] # "running"
        /\ chanState'[heartbeatTask] = "closed"]_vars

\* the step is a second close() of stdio client c right after a close() of c
ClosesAgain(c) ==
    /\ stdioLast = StdioOp(c, "close", None)
    /\ stdioLast' = StdioOp(c, "close", None)
    /\ stdioOps' = stdioOps + 1

(* C16: close() is idempotent: a second close() right after a close() leaves the
   client (session reference, exit stack, provider sessions) exactly as the first
   close() left it. *)
C16_CloseIdempotent ==
    [][\A c \in ClientSet :
        ClosesAgain(c) =>
            /\ mcpConnected'[c] = mcpConnected[c]
            /\ exitStack'[c] = exitStack[c]
            /\ liveSessions'[c] = liveSessions[c]]_vars

\* two connect/close cycles one after the other are complete: each session's
\* heartbeat was cancelled by the disconnect() that closed it, no call is in progress
TwoCyclesDone ==
    /\ connects = <<"True", "True">>
    /\ heartbeats = <<"cancelled", "cancelled">>
    /\ ~isConnected
    /\ websocket = 0
    /\ \A k \in DOMAIN wsCalls : wsCalls[k].st # "waiting"

(* C17: after two sequential connect/close cycles on one client, with any calls
   issued during the cycles, the pending-waiter table is empty once the second
   close has completed. *)
C17_NoResidualWaiters == TwoCyclesDone => DOMAIN futures = {}

(* C18: connecting a client that already has a session first closes the prior
   session: at no time does one client own two live channels, and no heartbeat
   task of a prior session is still running next to the new one. *)
C18_ReconnectClosesPrior ==
    /\ Cardinality({c \in DOMAIN chanState : chanState[c] = "open"}) <= 1
    /\ Cardinality({h \in DOMAIN heartbeats : heartbeats[h] = "running"}) <= 1

\* the step is a connect() that did not establish a session
ConnectFails ==
    /\ Len(connects') = Len(connects) + 1
    /\ connects'[Len(connects')] # "True"

(* C19: a connect that cannot establish the channel raises a connection error to
   its caller; after it the client is disconnected, holds no channel and has no
   background task running. *)
C19_FailedConnectRaises ==
    [][ConnectFails =>
        /\ connects'[Len(connects')] = "raised"
        /\ ~isConnected'
        /\ websocket' = 0
        /\ \A h \in DOMAIN heartbeats' : heartbeats'[h] # "running"
        /\ \A r \in DOMAIN readers' : readers'[r].st = "done"]_vars

\* no connect() of the client has succeeded so far
NeverConnected == \A k \in DOMAIN connects : connects[k] # "True"

(* C20: call_tool on a client that was never connected fails with a
   not-connected error, without generating a request id, registering a waiter or
   sending anything on a channel. *)
C20_NeverConnectedRefused ==
    NeverConnected =>
        /\ \A k \in DOMAIN wsCalls :
                wsCalls[k] = WsCall(NoId, "raised", "ConnectionError")
        /\ DOMAIN futures = {}
        /\ sent = <<>>

\* call_tool was invoked on a client whose only connect() attempt failed
C20_Witness ==
    /\ connects = <<"False">>
    /\ Len(wsCalls) > 0

\* the step is a call_tool on stdio client c right after a close() of c that left
\* no exit stack and no provider session
CallsAfterClose(c) ==
    /\ stdioLast = StdioOp(c, "close", None)
    /\ exitStack[c] = None
    /\ liveSessions[c] = 0
    /\ stdioLast'.client = c
    /\ stdioLast'.op = "call_tool"
    /\ stdioOps' = stdioOps + 1

(* C21: call_tool invoked after close() has completed fails with a not-connected
   error and is not dispatched to the provider session that was closed. *)
C21_CallAfterCloseRefused ==
    [][\A c \in ClientSet :
        CallsAfterClose(c) => stdioLast'.outcome = "ValueError"]_vars

\* the step is the reader loop taking m from a channel while m's waiter is pending
Rejects(c, m) ==
    /\ Receives(c)
    /\ Head(inbox[c]) = m
    /\ m.type = "error"
    /\ m.id \in DOMAIN futures
    /\ ~futures[m.id].done

(* C22: an inbound error message whose request id matches a pending waiter makes
   that call_tool invocation, and no other, fail with the provider's error text:
   the waiter gets the error, every other waiter stays as it was, and the call
   that fails with it has left the pending table. *)
C22_ErrorRejectsItsWaiter ==
    [][/\ \A c \in DOMAIN inbox : \A m \in served :
            Rejects(c, m)
            => /\ futures'[m.id] = [done |-> TRUE, kind |-> "exception", val |-> m.val]
               /\ \A id \in DOMAIN futures : id # m.id => futures'[id] = futures[id]
               /\ wsCalls' = wsCalls
       /\ \A k \in DOMAIN wsCalls :
            (wsCalls[k].st = "waiting" /\ wsCalls'[k].st = "raised"
                /\ wsCalls'[k].val # "TimeoutError")
            => /\ [type |-> "error", id |-> wsCalls[k].id,
                   val |-> wsCalls'[k].val] \in served
               /\ wsCalls[k].id \notin DOMAIN futures'
               /\ \A j \in DOMAIN wsCalls : j # k => wsCalls'[j] = wsCalls[j]]_vars

\* of two calls pending together one failed with the provider's error, the other
\* is still pending
C22_Witness ==
    /\ Len(wsCalls) = 2
    /\ \E k \in 1..2 :
        /\ wsCalls[k] = WsCall(wsCalls[k].id, "raised", "boom")
        /\ wsCalls[3 - k].st = "waiting"
        /\ wsCalls[3 - k].id \in DOMAIN futures
        /\ ~futures[wsCalls[3 - k].id].done

\* the step is reader r taking from its channel a message whose id is in neither
\* the future table nor the handler table
DropsUnknown(r) ==
    /\ readers[r].st = "recv"
    /\ Receives(readers[r].chan)
    /\ Head(inbox[readers[r].chan]).id \notin DOMAIN futures
    /\ Head(inbox[readers[r].chan]).id \notin streamHandlers

(* C23: a response, error, stream chunk or stream end whose id is in neither the
   pending-waiter table nor the stream-handler table is dropped: both tables stay
   as they were, no handler is run, no call ends, and the reader is back at the
   head of its loop, receiving on its session while the client is connected. *)
C23_UnknownIdDropped ==
    [][\A r \in DOMAIN readers :
        DropsUnknown(r)
        => /\ futures' = futures
           /\ streamHandlers' = streamHandlers
           /\ delivered' = delivered
           /\ wsCalls' = wsCalls
           /\ readers'[r] = ReaderLoopHead(r, readers, isConnected, websocket)
           /\ WsReady => readers'[r] = [st |-> "recv", chan |-> websocket]]_vars

\* messages of the four kinds with ids of no table were taken and dropped, and the
\* reader went on: the chunk of the open stream was delivered to its handler
C23_Witness ==
    /\ \E id \in StreamIds :
        /\ id \in streamHandlers
        /\ \E k \in DOMAIN delivered : delivered[k].id = id
    /\ \E m1, m2 \in served :
        /\ m1.type \in {"tool_response", "error"}
        /\ m2.type \in {"stream_data", "stream_end"}
        /\ m1.id \notin DOMAIN futures \cup streamHandlers
        /\ m1.id \notin {wsCalls[k].id : k \in DOMAIN wsCalls}
        /\ m2.id \notin StreamIds
    /\ \A c \in DOMAIN inbox : inbox[c] = <<>>
    /\ \E r \in DOMAIN readers : readers[r] = [st |-> "recv", chan |-> websocket]

\* cancel_stream(id) was invoked on a stream that stream_tool_calls had opened
Cancelled(id) ==
    \E j, k \in DOMAIN streamOps :
        /\ j < k
        /\ streamOps[j] = StreamOp("stream_tool_calls", id, streamOps[j].outcome)
        /\ streamOps[k].op = "cancel_stream"
        /\ streamOps[k].id = id

(* C24: for a stream opened with stream_tool_calls, chunks are delivered to its
   handler until the stream end or cancel_stream(id); once cancel_stream(id) has
   been invoked, no chunk of that id is handed to the handler any more. *)
C24_NoChunkAfterCancel ==
    [][\A id \in StreamIds :
        Cancelled(id)
        => ~(/\ Len(delivered') = Len(delivered) + 1
             /\ delivered'[Len(delivered')].id = id)]_vars

\* the step is an invocation of cancel_stream(id) running to its end
Cancels(id) ==
    /\ Len(streamOps') = Len(streamOps) + 1
    /\ streamOps'[Len(streamOps')].op = "cancel_stream"
    /\ streamOps'[Len(streamOps')].id = id

(* C25: cancel_stream(id) removes the handler of id from the stream table in
   every case, connected or not, whether or not the cancel message could be sent. *)
C25_CancelRemovesHandler ==
    [][\A id \in StreamIds : Cancels(id) => id \notin streamHandlers']_vars

\* the step is the handler that reader r awaits raising
HandlerRaises(r) ==
    /\ readers[r].st = "handler"
    /\ \E k \in DOMAIN delivered :
        /\ delivered[k].by = r
        /\ delivered[k].end = "running"
        /\ delivered'[k].end = "raised"

(* C26: a stream handler that raises on a chunk does not stop the reader loop: the
   reader is back at the head of its loop, receiving on its session while the
   client is connected, both tables are as they were, and so later chunks of other
   streams are delivered and pending waiters resolved. *)
C26_HandlerFailureKeepsLoop ==
    [][\A r \in DOMAIN readers :
        HandlerRaises(r)
        => /\ readers'[r] = ReaderLoopHead(r, readers, isConnected, websocket)
           /\ WsReady => readers'[r] = [st |-> "recv", chan |-> websocket]
           /\ futures' = futures
           /\ streamHandlers' = streamHandlers]_vars

\* the handler of one stream raised, and afterwards a chunk of another stream was
\* delivered to its handler
C26_Witness ==
    \E j, k \in DOMAIN delivered :
        /\ j < k
        /\ delivered[j].end = "raised"
        /\ delivered[k].id # delivered[j].id
        /\ delivered[k].end = "returned"

(* C27: when sending a heartbeat ping fails, the heartbeat loop ends and the
   connection is marked broken: the client is no longer Ready, so later call_tool
   invocations are refused. *)
C27_HeartbeatFailureBreaks ==
    [][\A h \in DOMAIN heartbeats :
        (WsReady /\ heartbeats[h] = "running" /\ heartbeats'[h] = "ended")
        => ~WsReady']_vars

(* C28: at any time at most one reader loop is active on a connection of the
   client, across every sequence of connect and disconnect calls. *)
C28_SingleReader ==
    \A c \in DOMAIN chanState :
        Cardinality({r \in DOMAIN readers :
                        readers[r].st # "done" /\ readers[r].chan = c}) <= 1

(* C29: the connection only moves Disconnected -> Connecting -> Ready -> Closing ->
   Disconnected: it leaves Ready only by closing, so the channel it held is closed
   when it is no longer Ready. *)
C29_LeavesReadyByClosing ==
    [][(WsReady /\ ~WsReady') => chanState'[websocket] = "closed"]_vars

(* C30: every PromptTools wrapper turns any failure of the underlying call_tool
   (not connected, timeout, failed send, provider error) into its default value
   ('' / False / {}) and never lets an exception reach its caller. *)
C30_WrappersReturnDefaults ==
    \A k \in DOMAIN promptCalls :
        /\ promptCalls[k].result.kind # "raised"
        /\ promptCalls[k].end.kind = "raised"
            => /\ promptCalls[k].result = [kind |-> "returned",
                                           val |-> Default(promptCalls[k].wrapper)]
               /\ promptCalls[k].result.val \in {"''", "False", "{}"}

\* a wrapper whose call_tool timed out returned its default, and one whose
\* call_tool returned no result did not raise either
C30_Witness ==
    /\ Len(promptCalls) = 2
    /\ promptCalls[1].wrapper = "upload_file"
    /\ promptCalls[1].end = [kind |-> "raised", val |-> "TimeoutError"]
    /\ promptCalls[1].result.val = "{}"
    /\ promptCalls[2].wrapper = "user_confirm"
    /\ promptCalls[2].end = [kind |-> "returned", val |-> None]
    /\ promptCalls[2].result.val = "False"

\* a batch of the model is being executed and call i of it has not resolved yet
BatchOpen == pc \in {"loop", "awaitTool"} /\ i <= Len(response.tool_calls)

(* C31 as stated: while some tool call of a batch has not resolved, the history
   holds no tool-result message of that batch. *)
C31_NoResultBeforeBatchResolved ==
    BatchOpen =>
        \A k \in DOMAIN response.tool_calls :
            ToolMessagesFor(response.tool_calls[k].id) = {}

(* C31, amended: the result of each tool call is appended to the history as that
   call resolves, before the next call of the batch is taken; the model is invoked
   again only when the history ends with the results of the whole batch, and it
   is invoked with that history. *)
C31_ResultsAppendedAsResolved ==
    [][/\ (pc \in {"loop", "awaitTool"} /\ i' = i + 1)
            => /\ i <= Len(response.tool_calls)
               /\ messages' = Append(messages, messages'[Len(messages')])
               /\ messages'[Len(messages')].role = "tool"
               /\ messages'[Len(messages')].tool_call_id = response.tool_calls[i].id
       /\ (pc = "loop" /\ pc' = "awaitModel")
            => LET N == Len(response.tool_calls)
               IN  /\ messages' = messages
                   /\ Len(messages) > N
                   /\ \A k \in 1..N :
                        /\ messages[Len(messages) - N + k].role = "tool"
                        /\ messages[Len(messages) - N + k].tool_call_id =
                                response.tool_calls[k].id]_vars

\* the second call of a batch of two is awaited while the history already ends
\* with the result of the first
C31_Witness ==
    /\ pc = "awaitTool"
    /\ Len(response.tool_calls) = 2
    /\ i = 2
    /\ messages[Len(messages)].role = "tool"
    /\ messages[Len(messages)].tool_call_id = response.tool_calls[1].id
    /\ messages[Len(messages)].content = "result"

\* the request ids of the call_tool invocations that have neither returned nor raised
CallsInProgress == {wsCalls[k].id : k \in {j \in DOMAIN wsCalls : wsCalls[j].st = "waiting"}}

(* C33: the pending-waiter table holds exactly the request ids of the call_tool
   invocations still in progress: an invocation that has returned or raised, by
   a result, a provider error, a timeout or a failed send, has left the table. *)
C33_TableIsCallsInProgress == DOMAIN futures = CallsInProgress

\* the step is the reader task of an earlier session ending on the loss of its
\* channel while the client has a later session
OldReaderEnds(r) ==
    /\ WsReady
    /\ readers[r].chan # websocket
    /\ readers[r].st = "recv"
    /\ readers'[r].st = "done"

(* C35: a reader loop started for an earlier session never changes the connection
   state of a later session: when it ends, is_connected and the channel of the
   client are as they were. *)
C35_OldReaderLeavesNewSession ==
    [][\A r \in DOMAIN readers :
        OldReaderEnds(r) => isConnected' = isConnected /\ websocket' = websocket]_vars

\* the heartbeat loops that pass their while test and send a ping
Pinging == {h \in DOMAIN heartbeats : heartbeats[h] = "running" /\ WsReady}

(* C36: at any time at most one heartbeat loop is sending pings for a client, and
   it is the loop of the current session: no loop started for an earlier session
   pings on the channel of a later one. *)
C36_OneHeartbeatLoop ==
    /\ Cardinality(Pinging) <= 1
    /\ \A h \in Pinging : h = heartbeatTask

\* the response or error of a call_tool still waiting is next on the channel of
\* reader r while r awaits a stream handler
HeldUp(r) ==
    /\ readers[r].st = "handler"
    /\ inbox[readers[r].chan] # <<>>
    /\ Head(inbox[readers[r].chan]).type \in {"tool_response", "error"}
    /\ Head(inbox[readers[r].chan]).id \in CallsInProgress

(* C37: the dispatch loop keeps resolving pending call_tool waiters while a stream
   handler is executing: when the response of a pending call is next on the
   channel, the reader can take it without the handler having returned. *)
C37_DispatchWhileHandlerRuns ==
    \A r \in DOMAIN readers : HeldUp(r) => ENABLED ReaderReceive(r)

\* the step is reader r taking a payload that cannot be parsed
TakesMalformed(r) ==
    /\ readers[r].st = "recv"
    /\ Receives(readers[r].chan)
    /\ ~Parses(Head(inbox[readers[r].chan]))

(* C38: a malformed inbound payload does not end the dispatch loop and changes
   neither the pending-waiter table nor the stream-handler table: no handler is
   run, no call ends, and the reader is back at the head of its loop, receiving
   on its session while the client is connected. *)
C38_MalformedPayloadSkipped ==
    [][\A r \in DOMAIN readers :
        TakesMalformed(r)
        => /\ futures' = futures
           /\ streamHandlers' = streamHandlers
           /\ delivered' = delivered
           /\ wsCalls' = wsCalls
           /\ readers'[r] = ReaderLoopHead(r, readers, isConnected, websocket)
           /\ WsReady => readers'[r] = [st |-> "recv", chan |-> websocket]]_vars

\* a malformed payload was taken and the reader went on: a call_tool got its
\* response, and the reader is receiving again
C38_Witness ==
    /\ MalformedMessages \subseteq served
    /\ \A c \in DOMAIN inbox : inbox[c] = <<>>
    /\ \E k \in DOMAIN wsCalls : wsCalls[k].st = "returned"
    /\ \E r \in DOMAIN readers : readers[r] = [st |-> "recv", chan |-> websocket]

(* C34: every Agent.invoke that was entered terminates (returns or raises), the
   model answering each chat() and, after finitely many invocations, without tool
   calls, even when the provider of a dispatched tool call never responds. *)
C34_InvokeTerminates == (pc # "idle") ~> (pc = "idle")

\* the invocation has returned or raised
Finished(c) == c.st \in {"returned", "raised"}

(* C32: MCPClient.text issues at most max_retries request attempts, returns the
   first successful response without a further attempt, backs off between failed
   attempts, raises the HTTP error of the max_retries-th failed attempt, and for
   every max_retries >= 0 ends by returning a response or by raising. *)
C32_TextRetries ==
    \A k \in DOMAIN httpCalls :
        LET c == httpCalls[k]
        IN  c.method = "text" =>
            /\ c.posts <= maxRetries
            /\ \A j \in 1..(c.posts - 1) : outcomes[j] = "error"
            /\ c.slept = [j \in 1..(c.posts - 1) |-> Pow2(j - 1)]
            /\ c.st = "returned" => c.val = "response" /\ outcomes[c.posts] = "ok"
            /\ c.st = "raised"
                => c.val = "HTTPError" /\ c.posts = maxRetries
                        /\ outcomes[c.posts] = "error"

(* C39: stream and astream yield each event of the server's stream at most once,
   also when an HTTP error interrupts the stream after some events and the
   request is retried. *)
C39_EventsYieldedOnce ==
    \A k \in DOMAIN httpCalls :
        httpCalls[k].method \in StreamMethods =>
            \A a, b \in DOMAIN httpCalls[k].yielded :
                a # b => httpCalls[k].yielded[a] # httpCalls[k].yielded[b]

(* C40: for the same max_retries and the same outcomes of the attempts, atext and
   text make the same number of attempts and end in the same way, with the same
   response returned or the same error raised. *)
C40_AtextAsText ==
    \A j, k \in DOMAIN httpCalls :
        (/\ httpCalls[j].method = "text" /\ Finished(httpCalls[j])
         /\ httpCalls[k].method = "atext" /\ Finished(httpCalls[k]))
        => /\ httpCalls[j].posts = httpCalls[k].posts
           /\ httpCalls[j].st = httpCalls[k].st
           /\ httpCalls[j].val = httpCalls[k].val

Next ==
    \/ InvokeInitFails
    \/ \E prompt \in Prompts : Invoke(prompt)
    \/ \E content \in Contents :
       \E n \in 0..(IF chats < MaxChats THEN MaxCalls - (nextId - 1) ELSE 0) :
       \E names \in [1..n -> ToolNames], args \in [1..n -> ArgStrings] :
            ChatRespond(content, Batch(n, names, args))
    \/ ChatFail
    \/ ToolNotFound
    \/ ToolBadArgs
    \/ ToolNotConnected
    \/ ToolDispatch
    \/ ToolResult
    \/ \E err \in ProviderErrors : ToolRaise(err)
    \/ NextChat
    \/ Return

Spec == Init /\ [][Next]_vars

\* the model API answers a chat(): a response, or the exception chat() catches
ModelResponds ==
    \/ \E content \in Contents :
       \E n \in 0..(IF chats < MaxChats THEN MaxCalls - (nextId - 1) ELSE 0) :
       \E names \in [1..n -> ToolNames], args \in [1..n -> ArgStrings] :
            ChatRespond(content, Batch(n, names, args))
    \/ ChatFail

\* the steps invoke takes by itself, between its awaits of call_tool and chat()
InvokeSteps ==
    \/ ToolNotFound
    \/ ToolBadArgs
    \/ ToolNotConnected
    \/ ToolDispatch
    \/ NextChat
    \/ Return

\* a turn scheduled by the event loop with a model that always answers; whether a
\* provider session ever answers a call_tool is up to the provider
SpecTurn == Spec /\ WF_vars(ModelResponds) /\ WF_vars(InvokeSteps)

\* the agent with its init and close operations called by its owner
NextAgent ==
    \/ Next
    \/ AgentInitFails
    \/ AgentInit
    \/ AgentClose

SpecAgent == Init /\ [][NextAgent]_vars

\* the websocket client, its callers and its provider
NextWs ==
    \/ WsConnectOk
    \/ WsConnectFail
    \/ WsDisconnect
    \/ WsCallRefused
    \/ WsCallSend
    \/ \E k \in DOMAIN wsCalls : WsCallResume(k)
    \/ \E k \in DOMAIN wsCalls : WsCallTimeout(k)
    \/ \E c \in DOMAIN chanState : \E m \in ServerMessages : ServerSend(c, m)
    \/ \E c \in DOMAIN chanState : PeerClose(c)
    \/ \E r \in DOMAIN readers : ReaderReceive(r)
    \/ \E r \in DOMAIN readers : ReaderClosed(r)
    \/ \E h \in DOMAIN heartbeats : HeartbeatExit(h)

\* the agent is left as constructed while the clients are exercised
InitClients ==
    /\ Init
    /\ apiKeySet = TRUE
    /\ mcpConnected = [c \in ClientSet |-> FALSE]

SpecWs == InitClients /\ [][NextWs]_vars

\* the owner of the stdio clients: init, close and call_tool in any order
NextStdio ==
    \/ \E c \in ClientSet, ok \in BOOLEAN :
            \E left \in {0, liveSessions[c]} : StdioClose(c, ok, left)
    \/ \E c \in ClientSet, ok \in BOOLEAN, end \in ConnectEnds :
            \E left \in {0, liveSessions[c]} : StdioInit(c, ok, left, end)
    \/ \E c \in ClientSet : StdioCallTool(c)

SpecStdio == InitClients /\ [][NextStdio]_vars

\* a client its owner has connected: the state after one connect()
InitConnected ==
    /\ InitAgent
    /\ apiKeySet = TRUE
    /\ mcpConnected = [c \in ClientSet |-> FALSE]
    /\ futures = [x \in {} |-> PendingFuture]
    /\ wsCalls = <<>>
    /\ sent = <<>>
    /\ served = {}
    /\ websocket = 1
    /\ isConnected = TRUE
    /\ heartbeatTask = 1
    /\ chanState = <<"open">>
    /\ inbox = << <<>> >>
    /\ readers = <<[st |-> "recv", chan |-> 1]>>
    /\ heartbeats = <<"running">>
    /\ connects = <<"True">>
    /\ HttpInit

\* the connected websocket client used for streams next to call_tool, up to its
\* disconnect or the loss of its channel
NextStream ==
    \/ WsDisconnect
    \/ StreamRefused
    \/ StreamOpen
    \/ \E id \in StreamIds : CancelStream(id)
    \/ WsCallSend
    \/ \E k \in DOMAIN wsCalls : WsCallResume(k)
    \/ \E c \in DOMAIN chanState,
          m \in ServerMessages \cup StreamMessages \cup MalformedMessages :
            ServerSend(c, m)
    \/ \E c \in DOMAIN chanState : PeerClose(c)
    \/ \E r \in DOMAIN readers : ReaderReceive(r)
    \/ \E r \in DOMAIN readers, raised \in BOOLEAN : HandlerEnds(r, raised)
    \/ \E r \in DOMAIN readers : ReaderClosed(r)

SpecStream == InitConnected /\ [][NextStream]_vars

\* a client built with some max_retries, against an API whose answers to the
\* successive attempts of a request are given
InitHttp ==
    /\ InitAgent
    /\ WsInit
    /\ apiKeySet = TRUE
    /\ mcpConnected = [c \in ClientSet |-> FALSE]
    /\ maxRetries \in 0..MaxRetries
    /\ outcomes \in [1..MaxRetries -> AttemptOutcomes]
    /\ httpCalls = <<>>

\* text and atext run against the same API
NextRetry ==
    \/ \E m \in TextMethods : HttpStart(m)
    \/ \E k \in DOMAIN httpCalls : AttemptReturns(k)
    \/ \E k \in DOMAIN httpCalls : AttemptFails(k)

SpecRetry == InitHttp /\ [][NextRetry]_vars

\* stream and astream run against the same API
NextHttpStream ==
    \/ \E m \in StreamMethods : HttpStart(m)
    \/ \E k \in DOMAIN httpCalls : StreamYield(k)
    \/ \E k \in DOMAIN httpCalls : StreamReturns(k)
    \/ \E k \in DOMAIN httpCalls : AttemptFails(k)

SpecHttpStream == InitHttp /\ [][NextHttpStream]_vars

\* the callers of the PromptTools wrappers
NextPrompt ==
    \/ \E w \in Wrappers : PromptCall(w)
    \/ \E k \in DOMAIN promptCalls, end \in CallEnds : PromptReturn(k, end)

SpecPrompt == InitClients /\ [][NextPrompt]_vars

====
